---------------------------- MODULE Spec2Model ----------------------------
(***************************************************************************)
(* The JWKS server of src/app.py: the module-level key registry `keys`,    *)
(* generate_key, the discovery handler jwks_endpoint, the issuance handler *)
(* auth_endpoint and the two 405 handlers.                                 *)
(*                                                                         *)
(* A request is served by a thread (app.run serves each request in its own *)
(* thread); a handler is a sequence of steps, one per access to the shared *)
(* dictionary or to the clock.  The dictionary is modelled as CPython      *)
(* keeps it: an array of entries in insertion order in which a deleted     *)
(* entry leaves a hole, and an iterator that remembers its position, the   *)
(* size of the dictionary when it was created and the number of items it   *)
(* still expects.  MaxKeys stays below the five entries at which CPython   *)
(* first rebuilds the array.                                               *)
(*                                                                         *)
(* Time is counted in ticks, TicksPerSec to the second.  The clock moves   *)
(* on by a tick at any moment, also between two steps of a handler; the    *)
(* long advance, the lifetime of a key, happens between requests: serving  *)
(* a request takes far less than the five minutes and the hour the code    *)
(* works with.  One specification lets the clock leap by five minutes at   *)
(* any moment, for what depends on two clock reads of one handler.         *)
(*                                                                         *)
(* base64url_encode is a pure function: its specification applies it, step *)
(* by step, to each value of a bounded set.                                *)
(***************************************************************************)
EXTENDS Integers, Sequences, FiniteSets, TLC

\* ------------------------------------------------------------------ bounds
NThreads    == 2   \* requests in flight at once
MaxKeys     == 2   \* calls of generate_key in one run
MaxTicks    == 2   \* advances of the clock in one run
TicksPerSec == 2   \* resolution of the clock
MaxValue    == 64  \* base64url_encode is applied to every value up to this one
MaxBytes    == 2   \* and to the values around 256, 256^2, ... up to this power

\* --------------------------------------------------------------- constants
KeyLifetime   == 60 * 60 * TicksPerSec   \* timedelta(hours=1)
KeyGrace      == 5 * 60 * TicksPerSec    \* timedelta(minutes=5), expired key
TokenLifetime == 5 * 60 * TicksPerSec    \* timedelta(minutes=5)
TokenGrace    == 5 * 60 * TicksPerSec    \* timedelta(minutes=5), expired token

Threads == 1 .. NThreads
None    == 0       \* Python's None (a kid is never 0)

JwksPath == "/.well-known/jwks.json"
AuthPath == "/auth"
Paths    == {JwksPath, AuthPath}
Methods  == {"GET", "POST", "PUT", "DELETE", "PATCH", "HEAD", "OPTIONS"}

VARIABLES
    keys,    \* the dictionary `keys`: its entries array
    clock,   \* datetime.now(UTC), in ticks
    nkeys,   \* number of key pairs generated so far
    pc,      \* pc[t]: where thread t is in its handler
    loc,     \* loc[t]: the handler's local variables
    resp     \* resp[t]: the response of the request thread t has served

vars == <<keys, clock, nkeys, pc, loc, resp>>

\* ------------------------------------------------------- the dictionary
Hole == [kid |-> None, key |-> 0, expiry |-> 0, live |-> FALSE]

Entry(kid, key, expiry) == [kid |-> kid, key |-> key, expiry |-> expiry, live |-> TRUE]

Live(d) == {i \in DOMAIN d : d[i].live}

\* len(d)
Used(d) == Cardinality(Live(d))

\* kid in d
Has(d, kid) == \E i \in Live(d) : d[i].kid = kid

IndexOf(d, kid) == CHOOSE i \in Live(d) : d[i].kid = kid

\* d[kid]
GetItem(d, kid) == d[IndexOf(d, kid)]

\* d[kid] = value: in place when kid is there, appended when it is not
SetItem(d, e) ==
    IF Has(d, e.kid) THEN [d EXCEPT ![IndexOf(d, e.kid)] = e] ELSE Append(d, e)

\* del d[kid], for a kid that is there
DelItem(d, kid) == [d EXCEPT ![IndexOf(d, kid)] = Hole]

KidsOf(d) == {d[i].kid : i \in Live(d)}

\* iter(d.items())
NewIter(d) == [pos |-> 1, used |-> Used(d), len |-> Used(d)]

NoIter == [pos |-> 0, used |-> 0, len |-> 0]

\* first live entry at or after position p, or 0
NextLive(d, p) ==
    IF \E i \in Live(d) : i >= p
    THEN CHOOSE i \in Live(d) : i >= p /\ \A j \in Live(d) : j >= p => i <= j
    ELSE 0

\* next(it): "error" is RuntimeError (the dictionary changed during iteration)
IterNext(d, it) ==
    IF it.used # Used(d) THEN [kind |-> "error", item |-> Hole, it |-> NoIter]
    ELSE IF NextLive(d, it.pos) = 0 THEN [kind |-> "stop", item |-> Hole, it |-> NoIter]
    ELSE IF it.len = 0 THEN [kind |-> "error", item |-> Hole, it |-> NoIter]
    ELSE [kind |-> "item", item |-> d[NextLive(d, it.pos)],
          it |-> [pos |-> NextLive(d, it.pos) + 1, used |-> it.used, len |-> it.len - 1]]

\* ------------------------------------------------------------ the threads
NoKey == [kid |-> None, key |-> 0, expiry |-> 0]

NoToken == [header |-> [alg |-> "", kid |-> None],
            payload |-> [sub |-> "", iat |-> 0, exp |-> 0],
            key |-> 0]

NoResp == [status |-> 0, keys |-> <<>>, token |-> NoToken, error |-> ""]

\* the locals of a handler: acc is expired_keys, then the items of valid_keys;
\* i counts the turns of the loop of line 86.  keys0 and t0 are the content of
\* `keys` and the time when the request arrived, for the specifications that
\* record them
Idle == [path |-> "", method |-> "", expired |-> FALSE, now |-> 0, it |-> NoIter,
         acc |-> <<>>, i |-> 0, kid |-> None, newkey |-> NoKey, pem |-> 0,
         exp_time |-> 0, keys0 |-> {}, t0 |-> 0]

\* the content of a dictionary: its items as a set
Store(d) == {[kid |-> d[i].kid, key |-> d[i].key, expiry |-> d[i].expiry] : i \in Live(d)}

\* an exception no handler catches: Flask answers 500
Unhandled(exc) == [NoResp EXCEPT !.status = 500, !.error = exc]

Init ==
    /\ keys = <<>>
    /\ clock = 0
    /\ nkeys = 0
    /\ pc = [t \in Threads |-> "idle"]
    /\ loc = [t \in Threads |-> Idle]
    /\ resp = [t \in Threads |-> NoResp]

\* ---------------------------------------------------------------- clock
\* the number of advances that lead to time c: hours, then five minutes, then
\* ticks
TicksTo(c) ==
    (c \div KeyLifetime) + ((c % KeyLifetime) \div TokenLifetime) + (c % TokenLifetime)

\* the clock moves on by one tick
Tick ==
    /\ TicksTo(clock + 1) <= MaxTicks
    /\ clock' = clock + 1
    /\ UNCHANGED <<keys, nkeys, pc, loc, resp>>

\* the lifetime of a key passes while no request is in flight
Elapse ==
    /\ \A t \in Threads : pc[t] = "idle"
    /\ TicksTo(clock + KeyLifetime) <= MaxTicks
    /\ clock' = clock + KeyLifetime
    /\ UNCHANGED <<keys, nkeys, pc, loc, resp>>

\* the clock moves on by the lifetime of a token at any moment, also between
\* two clock reads of a handler: the thread was held up, or the wall clock that
\* datetime.now reads was set forward
Leap ==
    /\ TicksTo(clock + TokenLifetime) <= MaxTicks
    /\ clock' = clock + TokenLifetime
    /\ UNCHANGED <<keys, nkeys, pc, loc, resp>>

\* --------------------------------------------------------------- routing
\* the url map built by the four @app.route decorators: a GET rule also
\* answers HEAD, and OPTIONS is answered by Flask itself
Route(path, method) ==
    IF method = "OPTIONS" THEN "options"
    ELSE IF path = JwksPath
         THEN (IF method \in {"GET", "HEAD"} THEN "jwks_endpoint" ELSE "jwks_invalid_methods")
         ELSE (IF method = "POST" THEN "auth_endpoint" ELSE "auth_invalid_methods")

\* requests in flight that may still call generate_key
Generating == {u \in Threads : pc[u] \in {"a_iter", "a_scan", "a_gen"}}

FirstPc(handler, expired) ==
    CASE handler = "jwks_endpoint" -> "j_now"
      [] handler = "auth_endpoint" -> (IF expired THEN "a_iter" ELSE "a_gen")
      [] OTHER -> handler

\* a request arrives and is dispatched to its handler; line 116 reads the
\* query string.  An issuance request is taken while generate_key has a call
\* left for it within MaxKeys, or an expired key is there for it to find
Start(t, reqs, record) ==
    \E path \in Paths, method \in Methods, expired \in BOOLEAN :
        /\ pc[t] = "idle"
        /\ <<path, method>> \in reqs
        /\ expired => Route(path, method) = "auth_endpoint"
        /\ Route(path, method) = "auth_endpoint" =>
                \/ nkeys + Cardinality(Generating) < MaxKeys
                \/ expired /\ \E e \in Store(keys) : e.expiry < clock
        /\ pc' = [pc EXCEPT ![t] = FirstPc(Route(path, method), expired)]
        /\ loc' = [loc EXCEPT ![t] = [Idle EXCEPT !.path = path, !.method = method,
                                                  !.expired = expired,
                                                  !.keys0 = IF record THEN Store(keys) ELSE {},
                                                  !.t0 = IF record THEN clock ELSE 0]]
        /\ UNCHANGED <<keys, clock, nkeys, resp>>

\* the response is sent; the thread is free for the next request
Return(t) ==
    /\ pc[t] = "done"
    /\ pc' = [pc EXCEPT ![t] = "idle"]
    /\ loc' = [loc EXCEPT ![t] = Idle]
    /\ resp' = [resp EXCEPT ![t] = NoResp]
    /\ UNCHANGED <<keys, clock, nkeys>>

\* the handler of thread t ends with response r
Finish(t, r) ==
    /\ pc' = [pc EXCEPT ![t] = "done"]
    /\ resp' = [resp EXCEPT ![t] = r]
    /\ loc' = [loc EXCEPT ![t].it = NoIter, ![t].i = 0,
                          ![t].acc = IF r.status = 200 THEN @ ELSE <<>>]

\* ---------------------------------------------------------- 405 handlers
MethodNotAllowed == [NoResp EXCEPT !.status = 405, !.error = "Method Not Allowed"]

jwks_invalid_methods(t) ==
    /\ pc[t] = "jwks_invalid_methods"
    /\ Finish(t, MethodNotAllowed)
    /\ UNCHANGED <<keys, clock, nkeys>>

auth_invalid_methods(t) ==
    /\ pc[t] = "auth_invalid_methods"
    /\ Finish(t, MethodNotAllowed)
    /\ UNCHANGED <<keys, clock, nkeys>>

\* Flask's automatic answer to OPTIONS
Options(t) ==
    /\ pc[t] = "options"
    /\ Finish(t, [NoResp EXCEPT !.status = 200])
    /\ UNCHANGED <<keys, clock, nkeys>>

\* ---------------------------------------------------------- jwks_endpoint
\* a comparison that lets a key live one tick too long
IsExpiredLate(expiry, now) == expiry + 1 < now

\* a comparison that takes the last instant of a key's life from it
IsExpiredInclusive(expiry, now) == expiry <= now

\* the comparison left out: every key counts as expired
IsExpiredAlways(expiry, now) == TRUE

\* key['expiry'] < now
IsExpired(expiry, now) == expiry < now

\* one entry of the published key set
Jwk(e) == [kid |-> e.kid, key |-> e.key]

\* valid_keys, from the items the comprehension of lines 90-100 went through
ValidKeys(items) == [j \in 1 .. Len(items) |-> Jwk(items[j])]

\* now = datetime.now(UTC)
JNow(t) ==
    /\ pc[t] = "j_now"
    /\ loc' = [loc EXCEPT ![t].now = clock]
    /\ pc' = [pc EXCEPT ![t] = "j_iter"]
    /\ UNCHANGED <<keys, clock, nkeys, resp>>

\* the comprehension of line 85 starts iterating keys.items()
JIter(t) ==
    /\ pc[t] = "j_iter"
    /\ loc' = [loc EXCEPT ![t].it = NewIter(keys), ![t].acc = <<>>]
    /\ pc' = [pc EXCEPT ![t] = "j_scan"]
    /\ UNCHANGED <<keys, clock, nkeys, resp>>

\* one turn of the comprehension of line 85, collecting expired_keys
JScan(t) ==
    /\ pc[t] = "j_scan"
    /\ LET r == IterNext(keys, loc[t].it) IN
        CASE r.kind = "error" -> Finish(t, Unhandled("RuntimeError"))
          [] r.kind = "stop" ->
                /\ pc' = [pc EXCEPT ![t] = IF loc[t].acc = <<>> THEN "j_iter2" ELSE "j_del"]
                /\ UNCHANGED <<loc, resp>>
          [] r.kind = "item" ->
                /\ loc' = [loc EXCEPT ![t].it = r.it,
                                      ![t].acc = IF IsExpired(r.item.expiry, loc[t].now)
                                                 THEN Append(@, r.item.kid) ELSE @]
                /\ UNCHANGED <<pc, resp>>
    /\ UNCHANGED <<keys, clock, nkeys>>

\* a purge that rebuilds `keys` from what its scan saw, in one step
JDelRebuild(t) ==
    /\ pc[t] = "j_del"
    /\ keys' = [j \in 1 .. (loc[t].it.pos - 1) |->
                    IF \E k \in DOMAIN loc[t].acc : loc[t].acc[k] = keys[j].kid
                    THEN Hole ELSE keys[j]]
    /\ loc' = [loc EXCEPT ![t].i = Len(loc[t].acc)]
    /\ pc' = [pc EXCEPT ![t] = "j_iter2"]
    /\ UNCHANGED <<clock, nkeys, resp>>

\* a purge that selects the expired keys and deletes none of them
JDelSkip(t) ==
    /\ pc[t] = "j_del"
    /\ loc' = [loc EXCEPT ![t].i = Len(loc[t].acc)]
    /\ pc' = [pc EXCEPT ![t] = "j_iter2"]
    /\ UNCHANGED <<keys, clock, nkeys, resp>>

\* one turn of the loop of lines 86-87: del keys[kid]
JDel(t) ==
    /\ pc[t] = "j_del"
    /\ LET kid == loc[t].acc[loc[t].i + 1] IN
        IF Has(keys, kid)
        THEN /\ keys' = DelItem(keys, kid)
             /\ loc' = [loc EXCEPT ![t].i = @ + 1]
             /\ pc' = [pc EXCEPT ![t] = IF loc[t].i + 1 = Len(loc[t].acc) THEN "j_iter2" ELSE "j_del"]
             /\ UNCHANGED resp
        ELSE /\ Finish(t, Unhandled("KeyError"))
             /\ UNCHANGED keys
    /\ UNCHANGED <<clock, nkeys>>

\* the comprehension of lines 90-100 starts iterating keys.items()
JIter2(t) ==
    /\ pc[t] = "j_iter2"
    /\ loc' = [loc EXCEPT ![t].it = NewIter(keys), ![t].acc = <<>>, ![t].i = 0]
    /\ pc' = [pc EXCEPT ![t] = "j_list"]
    /\ UNCHANGED <<keys, clock, nkeys, resp>>

\* one turn of the comprehension of lines 90-100, then line 103
JList(t) ==
    /\ pc[t] = "j_list"
    /\ LET r == IterNext(keys, loc[t].it) IN
        CASE r.kind = "error" -> Finish(t, Unhandled("RuntimeError"))
          [] r.kind = "stop" ->
                Finish(t, [NoResp EXCEPT !.status = 200, !.keys = ValidKeys(loc[t].acc)])
          [] r.kind = "item" ->
                /\ loc' = [loc EXCEPT ![t].it = r.it,
                                      ![t].acc = Append(@, [kid |-> r.item.kid, key |-> r.item.key,
                                                            expiry |-> r.item.expiry])]
                /\ UNCHANGED <<pc, resp>>
    /\ UNCHANGED <<keys, clock, nkeys>>

jwks_endpoint(t) ==
    JNow(t) \/ JIter(t) \/ JScan(t) \/ JDel(t) \/ JIter2(t) \/ JList(t)

\* ----------------------------------------------------------- generate_key
\* the flag ignored: every key is born expired
KeyExpiryPast(expired, now) == now - KeyGrace

\* lines 60-61 left out: every key is born with an hour to live
KeyExpiryFuture(expired, now) == now + KeyLifetime

\* lines 57-61: one hour from now, or five minutes ago for an expired key
KeyExpiry(expired, now) == IF expired THEN now - KeyGrace ELSE now + KeyLifetime

\* lines 47-61: the key pair, its kid (uuid4 draws it) and its expiry
GenerateKey(t, kid) ==
    /\ pc[t] = "a_gen"
    /\ nkeys < MaxKeys
    /\ nkeys' = nkeys + 1
    /\ loc' = [loc EXCEPT ![t].newkey = [kid |-> kid, key |-> nkeys + 1,
                                         expiry |-> KeyExpiry(loc[t].expired, clock)]]
    /\ pc' = [pc EXCEPT ![t] = "a_store"]
    /\ UNCHANGED <<keys, clock, resp>>

\* a store that keeps the newest key only
StoreKeyOnly(t) ==
    /\ pc[t] = "a_store"
    /\ keys' = <<Entry(loc[t].newkey.kid, loc[t].newkey.key, loc[t].newkey.expiry)>>
    /\ loc' = [loc EXCEPT ![t].kid = loc[t].newkey.kid, ![t].newkey = NoKey]
    /\ pc' = [pc EXCEPT ![t] = "a_lookup"]
    /\ UNCHANGED <<clock, nkeys, resp>>

\* lines 64-69: keys[kid] = {...}; return kid
StoreKey(t) ==
    /\ pc[t] = "a_store"
    /\ keys' = SetItem(keys, Entry(loc[t].newkey.kid, loc[t].newkey.key, loc[t].newkey.expiry))
    /\ loc' = [loc EXCEPT ![t].kid = loc[t].newkey.kid, ![t].newkey = NoKey]
    /\ pc' = [pc EXCEPT ![t] = "a_lookup"]
    /\ UNCHANGED <<clock, nkeys, resp>>

\* the kids uuid4 may draw: a value it has not drawn before or, when the
\* finite space it draws from is taken into account, any value
Uuid4(fresh) == IF fresh THEN {nkeys + 1} ELSE 1 .. MaxKeys

\* ---------------------------------------------------------- auth_endpoint
\* whole seconds since the epoch, as jwt.encode writes a datetime
EpochSeconds(time) == time \div TicksPerSec

\* a token that lives two hours
TokenExpLong(expired, now) == IF expired THEN now - TokenGrace ELSE now + 2 * KeyLifetime

\* lines 132-134
TokenExp(expired, now) == IF expired THEN now - TokenGrace ELSE now + TokenLifetime

\* lines 137-150: the token jwt.encode returns
Token(kid, pem, iat, exp_time) ==
    [header |-> [alg |-> "RS256", kid |-> kid],
     payload |-> [sub |-> "example_user", iat |-> EpochSeconds(iat), exp |-> EpochSeconds(exp_time)],
     key |-> pem]

\* line 119: the generator starts iterating keys.items()
AIter(t) ==
    /\ pc[t] = "a_iter"
    /\ loc' = [loc EXCEPT ![t].it = NewIter(keys)]
    /\ pc' = [pc EXCEPT ![t] = "a_scan"]
    /\ UNCHANGED <<keys, clock, nkeys, resp>>

\* line 119: one turn of the generator; next() stops it at the first expired key
AScan(t) ==
    /\ pc[t] = "a_scan"
    /\ LET r == IterNext(keys, loc[t].it) IN
        CASE r.kind = "error" -> Finish(t, Unhandled("RuntimeError"))
          [] r.kind = "stop" ->
                /\ pc' = [pc EXCEPT ![t] = "a_gen"]
                /\ loc' = [loc EXCEPT ![t].it = NoIter]
                /\ UNCHANGED resp
          [] r.kind = "item" ->
                IF IsExpired(r.item.expiry, clock)
                THEN /\ pc' = [pc EXCEPT ![t] = "a_lookup"]
                     /\ loc' = [loc EXCEPT ![t].it = NoIter, ![t].kid = r.item.kid]
                     /\ UNCHANGED resp
                ELSE /\ loc' = [loc EXCEPT ![t].it = r.it]
                     /\ UNCHANGED <<pc, resp>>
    /\ UNCHANGED <<keys, clock, nkeys>>

\* lines 125-129: keys[kid]['private_key'], serialised
ALookup(t) ==
    /\ pc[t] = "a_lookup"
    /\ IF Has(keys, loc[t].kid)
       THEN /\ loc' = [loc EXCEPT ![t].pem = GetItem(keys, loc[t].kid).key]
            /\ pc' = [pc EXCEPT ![t] = "a_exp"]
            /\ UNCHANGED resp
       ELSE Finish(t, Unhandled("KeyError"))
    /\ UNCHANGED <<keys, clock, nkeys>>

\* lines 132-134: exp_time
AExp(t) ==
    /\ pc[t] = "a_exp"
    /\ loc' = [loc EXCEPT ![t].exp_time = TokenExp(loc[t].expired, clock)]
    /\ pc' = [pc EXCEPT ![t] = "a_encode"]
    /\ UNCHANGED <<keys, clock, nkeys, resp>>

\* lines 137-154: iat is read from the clock, the token is signed and returned
AEncode(t) ==
    /\ pc[t] = "a_encode"
    /\ Finish(t, [NoResp EXCEPT !.status = 201,
                                !.token = Token(loc[t].kid, loc[t].pem, clock, loc[t].exp_time)])
    /\ UNCHANGED <<keys, clock, nkeys>>

auth_endpoint(t, fresh) ==
    \/ AIter(t) \/ AScan(t)
    \/ \E kid \in Uuid4(fresh) : GenerateKey(t, kid)
    \/ StoreKey(t)
    \/ ALookup(t) \/ AExp(t) \/ AEncode(t)

\* ------------------------------------------------------ base64url_encode
\* value.bit_length()
RECURSIVE BitLength(_)
BitLength(value) == IF value = 0 THEN 0 ELSE 1 + BitLength(value \div 2)

\* value.to_bytes(length, 'big'), for a value that fits
to_bytes(value, length) ==
    [i \in 1 .. length |-> (value \div (256 ^ (length - i))) % 256]

\* the alphabet of base64.urlsafe_b64encode
Alphabet ==
    << "A", "B", "C", "D", "E", "F", "G", "H", "I", "J", "K", "L", "M",
       "N", "O", "P", "Q", "R", "S", "T", "U", "V", "W", "X", "Y", "Z",
       "a", "b", "c", "d", "e", "f", "g", "h", "i", "j", "k", "l", "m",
       "n", "o", "p", "q", "r", "s", "t", "u", "v", "w", "x", "y", "z",
       "0", "1", "2", "3", "4", "5", "6", "7", "8", "9", "-", "_" >>

\* base64.urlsafe_b64encode(b): three bytes make four characters, and a last
\* group of one or two bytes is padded with '='
RECURSIVE urlsafe_b64encode(_)
urlsafe_b64encode(b) ==
    CASE Len(b) = 0 -> <<>>
      [] Len(b) = 1 -> << Alphabet[(b[1] \div 4) + 1],
                          Alphabet[((b[1] % 4) * 16) + 1], "=", "=" >>
      [] Len(b) = 2 -> << Alphabet[(b[1] \div 4) + 1],
                          Alphabet[((b[1] % 4) * 16 + (b[2] \div 16)) + 1],
                          Alphabet[((b[2] % 16) * 4) + 1], "=" >>
      [] OTHER -> << Alphabet[(b[1] \div 4) + 1],
                     Alphabet[((b[1] % 4) * 16 + (b[2] \div 16)) + 1],
                     Alphabet[((b[2] % 16) * 4 + (b[3] \div 64)) + 1],
                     Alphabet[(b[3] % 64) + 1] >>
                  \o urlsafe_b64encode(SubSeq(b, 4, Len(b)))

\* s.rstrip(b'=')
RECURSIVE rstrip(_)
rstrip(s) ==
    IF s # <<>> /\ s[Len(s)] = "=" THEN rstrip(SubSeq(s, 1, Len(s) - 1)) ELSE s

\* the arguments base64url_encode is applied to
Values == (0 .. MaxValue) \cup {256 ^ k - 1 : k \in 1 .. MaxBytes}
                          \cup {256 ^ k : k \in 1 .. MaxBytes}

\* a call of base64url_encode(value) by the main thread; loc holds the locals
\* of the call
EncInit ==
    /\ keys = <<>>
    /\ clock = 0
    /\ nkeys = 0
    /\ pc = [t \in Threads |-> IF t = CHOOSE u \in Threads : \A w \in Threads : u <= w
                               THEN "b_bytes" ELSE "idle"]
    /\ \E value \in Values :
            loc = [t \in Threads |-> [value |-> value, bytes_value |-> <<>>, result |-> <<>>]]
    /\ resp = [t \in Threads |-> NoResp]

\* line 33: bytes_value = value.to_bytes((value.bit_length() + 7) // 8, 'big')
EncBytes(t) ==
    /\ pc[t] = "b_bytes"
    /\ loc' = [loc EXCEPT ![t].bytes_value =
                    to_bytes(loc[t].value, (BitLength(loc[t].value) + 7) \div 8)]
    /\ pc' = [pc EXCEPT ![t] = "b_encode"]
    /\ UNCHANGED <<keys, clock, nkeys, resp>>

\* line 34: return base64.urlsafe_b64encode(bytes_value).rstrip(b'=').decode('utf-8')
EncReturn(t) ==
    /\ pc[t] = "b_encode"
    /\ loc' = [loc EXCEPT ![t].result = rstrip(urlsafe_b64encode(loc[t].bytes_value))]
    /\ pc' = [pc EXCEPT ![t] = "b_return"]
    /\ UNCHANGED <<keys, clock, nkeys, resp>>

EncNext == \E t \in Threads : EncBytes(t) \/ EncReturn(t)

EncSpec == EncInit /\ [][EncNext]_vars

\* ------------------------------------------------------ specifications
\* every request a client can send
Requests == Paths \X Methods

\* the requests the parallel specification serves: those of the two handlers
\* that touch `keys`
ServedRequests == {<<JwksPath, "GET">>, <<AuthPath, "POST">>}

\* requests served in parallel, one thread each
Next ==
    \/ Tick
    \/ Elapse
    \/ \E t \in Threads :
        \/ Start(t, ServedRequests, FALSE)
        \/ Return(t)
        \/ jwks_endpoint(t)
        \/ auth_endpoint(t, TRUE)

Spec == Init /\ [][Next]_vars

\* requests served one at a time, by one thread
MainThread == CHOOSE t \in Threads : \A u \in Threads : t <= u

Serve(t, fresh) ==
    \/ Start(t, Requests, TRUE)
    \/ Return(t)
    \/ jwks_endpoint(t)
    \/ auth_endpoint(t, fresh)
    \/ jwks_invalid_methods(t)
    \/ auth_invalid_methods(t)
    \/ Options(t)

SeqNext == Tick \/ Elapse \/ Serve(MainThread, TRUE)

SeqSpec == Init /\ [][SeqNext]_vars

\* the handler of a request that has arrived runs to its end
Progress(t) ==
    \/ Return(t)
    \/ jwks_endpoint(t)
    \/ auth_endpoint(t, TRUE)
    \/ jwks_invalid_methods(t)
    \/ auth_invalid_methods(t)
    \/ Options(t)

\* a discovery request arrives
Discover(t) == Start(t, {<<JwksPath, "GET">>}, TRUE)

\* requests served one at a time; every handler runs to its end, and
\* discovery requests keep arriving
LiveSpec ==
    /\ SeqSpec
    /\ WF_vars(Progress(MainThread))
    /\ SF_vars(Discover(MainThread))

\* requests served one at a time; the clock may leap while one is served
LeapNext == Tick \/ Elapse \/ Leap \/ Serve(MainThread, TRUE)

LeapSpec == Init /\ [][LeapNext]_vars

\* requests served one at a time; uuid4 may draw a kid twice
DupNext == Tick \/ Elapse \/ Serve(MainThread, FALSE)

DupSpec == Init /\ [][DupNext]_vars

\* ---------------------------------------------------------------- claims
Handler(t) == Route(loc[t].path, loc[t].method)

\* thread t has answered a discovery request with the key set
JwksDone(t) == pc[t] = "done" /\ Handler(t) = "jwks_endpoint" /\ resp[t].status = 200

\* thread t is past the purge of its discovery request
PurgeDone(t) == pc[t] \in {"j_iter2", "j_list"} \/ JwksDone(t)

\* the kids of a published key set
Published(t) == {resp[t].keys[j].kid : j \in DOMAIN resp[t].keys}

\* C1: once a discovery request that read the clock as `now` is past its
\* purge, no key with expiry < now is left in the store (requests served one
\* at a time).
C1_PurgeLeavesNoExpiredKey ==
    \A t \in Threads :
        PurgeDone(t) => \A e \in Store(keys) : e.expiry >= loc[t].now

\* a purge has just removed an expired key and left a valid one
C1_Witness ==
    \E t \in Threads :
        /\ pc[t] = "j_iter2"
        /\ loc[t].acc # <<>>
        /\ \E e \in loc[t].keys0 : e.expiry < loc[t].now /\ ~Has(keys, e.kid)
        /\ Store(keys) # {}

\* C2: the key set a discovery request handled at `now` returns holds a key K,
\* by kid and once, exactly when K was in the store as the request arrived and
\* K.expiry >= now (requests served one at a time).
C2_ResponseIsTheValidKeys ==
    \A t \in Threads :
        JwksDone(t) =>
            /\ \A j, k \in DOMAIN resp[t].keys :
                    resp[t].keys[j].kid = resp[t].keys[k].kid => j = k
            /\ {resp[t].keys[j] : j \in DOMAIN resp[t].keys}
                 = {[kid |-> e.kid, key |-> e.key] :
                        e \in {x \in loc[t].keys0 : x.expiry >= loc[t].now}}

\* a discovery request found one expired and one valid key and returned the
\* valid one
C2_Witness ==
    \E t \in Threads :
        /\ JwksDone(t)
        /\ \E e \in loc[t].keys0 : e.expiry < loc[t].now
        /\ \E e \in loc[t].keys0 : e.expiry > loc[t].now /\ Published(t) = {e.kid}

\* C3: under every interleaving with issuance requests, the response of a
\* discovery request that read the clock as `now` holds no key with
\* expiry < now.
C3_NoExpiredKeyPublished ==
    \A t \in Threads :
        JwksDone(t) => \A j \in DOMAIN loc[t].acc : loc[t].acc[j].expiry >= loc[t].now

\* C4, as claimed: a key whose expiry is exactly the `now` of a discovery
\* request is not in that request's response.
C4_BoundaryKeyNotPublished ==
    \A t \in Threads :
        JwksDone(t) => \A e \in loc[t].keys0 : e.expiry = loc[t].now => e.kid \notin Published(t)

\* C4, amended: a key in the store whose expiry is exactly the `now` of a
\* discovery request is kept by the purge and is in that request's response
\* (requests served one at a time).
C4_BoundaryKeyPublished ==
    \A t \in Threads :
        JwksDone(t) =>
            \A e \in loc[t].keys0 :
                e.expiry = loc[t].now => e.kid \in Published(t) /\ e \in Store(keys)

\* a discovery request was handled at the very expiry of a stored key
C4_Witness ==
    \E t \in Threads : JwksDone(t) /\ \E e \in loc[t].keys0 : e.expiry = loc[t].now

\* thread u has deleted some of the keys its purge selected, and not yet all
MidPurge(u) == pc[u] = "j_del" /\ loc[u].i > 0

\* this step, thread t takes an item, or the end, from its iterator over `keys`
\* (the scan of line 119, the listing of lines 90-100)
ReadsKeys(t) ==
    /\ pc[t] \in {"a_scan", "j_list"}
    /\ IterNext(keys, loc[t].it).kind # "error"
    /\ <<pc[t], loc[t]>> # <<pc'[t], loc'[t]>>

\* C5: a reader never observes a partially purged store: no request reads
\* `keys` while the purge of another has removed some of its expired keys and
\* not yet the others.
C5_NoPartialPurgeObserved ==
    [][\A t, u \in Threads : (t # u /\ MidPurge(u)) => ~ReadsKeys(t)]_vars

\* C6: an insert that comes while a discovery request is purging is not lost:
\* keys[kid] = ... puts the key into the store, and a key leaves the store only
\* in the step of a purge that selected its kid and read the clock as `now`
\* with the key's expiry < now.
C6_InsertNotLost ==
    [][/\ \A t \in Threads :
            (pc[t] = "a_store" /\ pc'[t] # "a_store") => loc[t].newkey \in Store(keys')
       /\ \A e \in Store(keys) \ Store(keys') :
            \E u \in Threads :
                /\ pc[u] = "j_del"
                /\ loc[u].acc[loc[u].i + 1] = e.kid
                /\ e.expiry < loc[u].now
      ]_vars

\* a purge has deleted what it selected, and the store holds a key that was
\* appended after the purge's scan had ended
C6_Witness ==
    \E u \in Threads :
        /\ pc[u] = "j_iter2"
        /\ loc[u].acc # <<>>
        /\ \E j \in Live(keys) : j >= loc[u].it.pos

\* C7: the store never overwrites an entry: a kid that stays in the store
\* keeps its key material and its expiry.
C7_NoOverwrite ==
    [][\A e \in Store(keys) : e.kid \in KidsOf(keys') => e \in Store(keys')]_vars

\* thread t has answered an issuance request with a token
AuthDone(t) == pc[t] = "done" /\ Handler(t) = "auth_endpoint" /\ resp[t].status = 201

\* the request of thread t signed with an expired key the store already held,
\* and left the store as it was
ReusedExpired(t) ==
    /\ Store(keys) = loc[t].keys0
    /\ \E e \in loc[t].keys0 :
        /\ e.kid = resp[t].token.header.kid
        /\ e.key = resp[t].token.key
        /\ e.expiry < clock

\* the request of thread t added one key to the store and signed with it
CreatedOne(t) ==
    \E n \in Store(keys) \ loc[t].keys0 :
        /\ Store(keys) = loc[t].keys0 \cup {n}
        /\ n.kid \notin {e.kid : e \in loc[t].keys0}
        /\ n.key \notin {e.key : e \in loc[t].keys0}
        /\ n.kid = resp[t].token.header.kid
        /\ n.key = resp[t].token.key

\* C8: POST /auth?expired signs with a stored expired key and leaves the store
\* unchanged when the store held an expired key as the request arrived; it
\* creates exactly one key, born expired, and signs with it when the store
\* holds no expired key (requests served one at a time).
C8_ExpiredSelection ==
    \A t \in Threads :
        (AuthDone(t) /\ loc[t].expired) =>
            LET CreatedExpired ==
                    /\ CreatedOne(t)
                    /\ \A n \in Store(keys) \ loc[t].keys0 :
                            n.expiry < clock /\ n.expiry + KeyGrace \in loc[t].t0 .. clock
            IN  /\ ReusedExpired(t) \/ CreatedExpired
                /\ (\E e \in loc[t].keys0 : e.expiry < loc[t].t0) => ReusedExpired(t)
                /\ (\A e \in loc[t].keys0 : e.expiry >= clock) => CreatedExpired

\* the store held a valid key, then an expired one; the request signed with
\* the expired one
C8_Witness ==
    \E t \in Threads :
        /\ AuthDone(t) /\ loc[t].expired
        /\ \E e \in loc[t].keys0 : e.expiry < loc[t].t0 /\ e.kid = resp[t].token.header.kid
        /\ \E e \in loc[t].keys0 : e.expiry > clock
        /\ Store(keys) = loc[t].keys0

\* C9: POST /auth without `expired` leaves in the store what was there, plus
\* exactly one new key, valid at issuance, whose kid is the token's (requests
\* served one at a time).
C9_FreshKeyPerToken ==
    \A t \in Threads :
        (AuthDone(t) /\ ~loc[t].expired) =>
            /\ CreatedOne(t)
            /\ \A n \in Store(keys) \ loc[t].keys0 : n.expiry >= clock

\* a token was issued while the store already held a valid key
C9_Witness ==
    \E t \in Threads :
        /\ AuthDone(t) /\ ~loc[t].expired
        /\ \E e \in loc[t].keys0 : e.expiry > clock

\* C10: every issued token carries exactly the claims sub, iat and exp, and a
\* kid that is in the store at the moment the token is issued.
C10_TokenKidInStore ==
    [][\A t \in Threads :
            (pc[t] = "a_encode" /\ pc'[t] = "done" /\ resp'[t].status = 201) =>
                /\ DOMAIN resp'[t].token.payload = {"sub", "iat", "exp"}
                /\ Has(keys', resp'[t].token.header.kid)
      ]_vars

\* C11: every POST /auth, with or without `expired` and under every
\* interleaving with discovery requests, ends with 201 and a token or with 500
\* and the error "JWT encoding error: ..."; the lookup of the selected key
\* never fails unhandled.
C11_AuthOutcome ==
    \A t \in Threads :
        (pc[t] = "done" /\ Handler(t) = "auth_endpoint") =>
            \/ resp[t].status = 201 /\ resp[t].token # NoToken
            \/ resp[t].status = 500 /\ resp[t].error = "JWT encoding error"

\* C12: a token issued with the expired flag has exp before its time of
\* issuance, and a token issued without it has exp after its iat, however the
\* clock advances between the clock reads of lines 132-139.
C12_ExpiryCorrect ==
    \A t \in Threads :
        AuthDone(t) =>
            IF loc[t].expired
            THEN resp[t].token.payload.exp < resp[t].token.payload.iat
            ELSE resp[t].token.payload.exp > resp[t].token.payload.iat

\* C13: for every token issued without `expired`, exp - iat, in the whole
\* seconds the token carries, is exactly the standard lifetime of 300 seconds,
\* also when the clock advances between the two clock reads.
C13_LifetimeExact ==
    \A t \in Threads :
        (AuthDone(t) /\ ~loc[t].expired) =>
            resp[t].token.payload.exp - resp[t].token.payload.iat = 5 * 60

\* C14: on /.well-known/jwks.json every method other than GET, and on /auth
\* every method other than POST, is answered with 405 and the body
\* {"error": "Method Not Allowed"}, and leaves the key store as it was.
C14_MethodRestriction ==
    \A t \in Threads :
        (/\ pc[t] = "done"
         /\ \/ loc[t].path = JwksPath /\ loc[t].method # "GET"
            \/ loc[t].path = AuthPath /\ loc[t].method # "POST") =>
            /\ resp[t] = MethodNotAllowed
            /\ Store(keys) = loc[t].keys0

\* the request of thread t is past generate_key, which returned loc[t].kid
Generated(t) ==
    /\ Handler(t) = "auth_endpoint"
    /\ pc[t] \in {"a_lookup", "a_exp", "a_encode", "done"}
    /\ loc[t].kid # None
    /\ loc[t].kid \notin {e.kid : e \in loc[t].keys0}

\* C15: generate_key(expired) puts the new key into the store under the kid it
\* returns; its expiry is the time of the call + 1 hour when expired is false,
\* so the key is valid, and the time of the call - 5 minutes when expired is
\* true, so the key is expired from its creation on.
C15_GenerateKey ==
    \A t \in Threads :
        Generated(t) =>
            /\ Has(keys, loc[t].kid)
            /\ LET e == GetItem(keys, loc[t].kid) IN
                IF loc[t].expired
                THEN e.expiry + KeyGrace \in loc[t].t0 .. clock /\ e.expiry < clock
                ELSE e.expiry - KeyLifetime \in loc[t].t0 .. clock /\ e.expiry >= clock

\* generate_key has returned from a call with expired true, made after the
\* clock had moved on
C15_Witness ==
    \E t \in Threads :
        /\ Generated(t) /\ pc[t] = "a_lookup" /\ loc[t].expired
        /\ loc[t].t0 > 0
        /\ loc[t].keys0 # {}

\* the value of a character of the alphabet
Sextet(c) == CHOOSE k \in 0 .. 63 : Alphabet[k + 1] = c

\* the bytes an unpadded base64url string stands for
RECURSIVE B64Decode(_)
B64Decode(s) ==
    CASE Len(s) < 2 -> <<>>
      [] Len(s) = 2 -> << Sextet(s[1]) * 4 + (Sextet(s[2]) \div 16) >>
      [] Len(s) = 3 -> << Sextet(s[1]) * 4 + (Sextet(s[2]) \div 16),
                          (Sextet(s[2]) % 16) * 16 + (Sextet(s[3]) \div 4) >>
      [] OTHER -> << Sextet(s[1]) * 4 + (Sextet(s[2]) \div 16),
                     (Sextet(s[2]) % 16) * 16 + (Sextet(s[3]) \div 4),
                     (Sextet(s[3]) % 4) * 64 + Sextet(s[4]) >>
                  \o B64Decode(SubSeq(s, 5, Len(s)))

\* int.from_bytes(b, 'big')
RECURSIVE FromBytes(_)
FromBytes(b) ==
    IF b = <<>> THEN 0 ELSE FromBytes(SubSeq(b, 1, Len(b) - 1)) * 256 + b[Len(b)]

\* the shortest big-endian byte string of v; a single zero byte for zero
MinimalBytes(v) == IF v = 0 THEN <<0>> ELSE to_bytes(v, (BitLength(v) + 7) \div 8)

\* C16: for every v >= 0, base64url_encode(v) has no '=' in it, is the base64url
\* of the shortest big-endian byte string of v (no leading zero byte; the single
\* zero byte when v is zero), and decodes to v.
C16_RoundTrip ==
    \A t \in Threads :
        pc[t] = "b_return" =>
            /\ \A i \in DOMAIN loc[t].result :
                    loc[t].result[i] # "=" /\ \E k \in DOMAIN Alphabet : Alphabet[k] = loc[t].result[i]
            /\ B64Decode(loc[t].result) = MinimalBytes(loc[t].value)
            /\ loc[t].value # 0 => B64Decode(loc[t].result)[1] # 0
            /\ FromBytes(B64Decode(loc[t].result)) = loc[t].value

\* this step is one of the request thread t is serving
Acts(t) == pc[t] # "idle" /\ <<pc[t], loc[t], resp[t]>> # <<pc'[t], loc'[t], resp'[t]>>

\* C17: keys are destroyed only by the purge of a discovery request and only
\* when expired: a step of an issuance request or of a 405 handler removes no
\* key, a step of a discovery request handled at `now` removes no key with
\* expiry >= now, and no other step removes a key.
C17_OnlyPurgeRemoves ==
    [][/\ \A t \in Threads :
            Acts(t) =>
                IF Handler(t) = "jwks_endpoint"
                THEN \A e \in Store(keys) \ Store(keys') : e.expiry < loc[t].now
                ELSE Store(keys) \subseteq Store(keys')
       /\ Store(keys) \subseteq Store(keys') \/ \E t \in Threads : Acts(t)
      ]_vars

\* a discovery request has removed a key and kept another
C17_Witness ==
    \E t \in Threads :
        /\ JwksDone(t)
        /\ loc[t].keys0 \ Store(keys) # {}
        /\ loc[t].keys0 \cap Store(keys) # {}

\* C18: the key that signed a token issued without `expired` outlives the
\* token (requests served one at a time): at issuance the key is in the store
\* with expiry >= the token's exp; a key stays in the store as long as the
\* clock has not passed its expiry; and a discovery request handled at `now`
\* publishes every key the store held with expiry >= now.
C18_KeyOutlivesToken ==
    [][/\ \A t \in Threads :
            (pc[t] = "a_encode" /\ pc'[t] = "done" /\ ~loc[t].expired) =>
                /\ resp'[t].status = 201
                /\ Has(keys', resp'[t].token.header.kid)
                /\ resp'[t].token.payload.exp * TicksPerSec
                        <= GetItem(keys', resp'[t].token.header.kid).expiry
       /\ \A e \in Store(keys) : e.expiry >= clock => e \in Store(keys')
       /\ \A t \in Threads :
            (pc[t] = "j_list" /\ pc'[t] = "done") =>
                /\ resp'[t].status = 200
                /\ \A e \in loc[t].keys0 :
                        e.expiry >= loc[t].now =>
                            e \in Store(keys') /\ e.kid \in {resp'[t].keys[j].kid : j \in DOMAIN resp'[t].keys}
      ]_vars

\* a discovery request, handled after the clock had moved on, published a key
\* that an earlier issuance request had created with an hour to live
C18_Witness ==
    \E t \in Threads :
        /\ JwksDone(t)
        /\ \E e \in loc[t].keys0 :
            /\ e.expiry - KeyLifetime < loc[t].now
            /\ e.expiry >= loc[t].now
            /\ e.kid \in Published(t)

\* C19: with requests handled one at a time, the kid of a token issued by
\* POST /auth?expired is that of a stored key with expiry < the time of
\* issuance, and no discovery request handled at or after that time publishes
\* it: a discovery request handled at `now` publishes no key with expiry < now
\* and removes every such key, and a kid is never given to a second key.
C19_ExpiredKidNeverPublished ==
    [][/\ \A t \in Threads :
            (pc[t] = "a_encode" /\ pc'[t] = "done" /\ loc[t].expired) =>
                /\ resp'[t].status = 201
                /\ Has(keys', resp'[t].token.header.kid)
                /\ GetItem(keys', resp'[t].token.header.kid).expiry < clock
       /\ \A t \in Threads :
            (pc[t] = "j_list" /\ pc'[t] = "done") =>
                \A e \in loc[t].keys0 :
                    e.expiry < loc[t].now =>
                        /\ e.kid \notin {resp'[t].keys[j].kid : j \in DOMAIN resp'[t].keys}
                        /\ e.kid \notin KidsOf(keys')
       /\ \A kid \in KidsOf(keys') \ KidsOf(keys) : kid = nkeys /\ nkeys' = nkeys
      ]_vars

\* a discovery request found in the store a key that was born expired (in the
\* first five minutes: its expiry is before time 0) and a valid key; it
\* published the valid one only
C19_Witness ==
    \E t \in Threads :
        /\ JwksDone(t)
        /\ \E e \in loc[t].keys0 :
            /\ e.expiry < 0
            /\ e.kid \notin Published(t) /\ e.kid \notin KidsOf(keys)
        /\ Published(t) # {}

\* C20: expired keys are purged, and only through discovery: while discovery
\* requests keep being handled, a stored key that the clock has passed is
\* eventually removed; a kid that has left the store does not come back; a step
\* that is not of a discovery request never shrinks the store, and storing a
\* new key makes it one larger.
C20_EventuallyPurged ==
    /\ \A kid \in 1 .. MaxKeys :
            (Has(keys, kid) /\ GetItem(keys, kid).expiry < clock) ~> ~Has(keys, kid)
    /\ [][/\ \A kid \in KidsOf(keys') \ KidsOf(keys) :
                \E t \in Threads : pc[t] = "a_store" /\ kid = nkeys /\ nkeys' = nkeys
          /\ (\A t \in Threads : Acts(t) => Handler(t) # "jwks_endpoint") =>
                /\ Store(keys) \subseteq Store(keys')
                /\ Used(keys') >= Used(keys)
          /\ \A t \in Threads :
                (pc[t] = "a_store" /\ pc'[t] # "a_store") => Used(keys') = Used(keys) + 1
         ]_vars

\* every key that was ever stored had expired, and a discovery request has
\* left the store empty
C20_Witness ==
    \E t \in Threads :
        /\ JwksDone(t)
        /\ nkeys > 1
        /\ Cardinality(loc[t].keys0) = nkeys
        /\ Store(keys) = {}

=============================================================================
